---------------------------- MODULE Spec2Model ----------------------------
(***************************************************************************)
(* A model of ml_system/scam_detector.py: the ScamDetector class, its      *)
(* text functions (preprocess_text, extract_urls, analyze_url), its score  *)
(* fusion (predict) and its model lifecycle (train, save_model,            *)
(* load_model).                                                            *)
(*                                                                         *)
(* A Python str is a sequence of one-character strings.  Probabilities and *)
(* scores are exact rationals over a common denominator (see ConfUnit), so *)
(* comparisons against 0.5 and 0.6 are exact.                              *)
(***************************************************************************)
EXTENDS Integers, Sequences, FiniteSets, TLC

VARIABLES
    is_trained,      \* self.is_trained
    vectorizer,      \* self.vectorizer: [fit |-> the training run that fitted it, 0 for none]
    classifier,      \* self.classifier: [fit |-> that run, n_classes |-> classes it was fitted on]
    vectorizer_pkl,  \* model_dir/vectorizer.pkl
    classifier_pkl,  \* model_dir/classifier.pkl
    runs,            \* training runs started so far (names the fitted objects)
    call,            \* the call being made / last made on the detector
    ret,             \* what that call returned or raised
    completed,       \* history: some train() or load_model() returned normally
    fitted,          \* history: some train() got past line 153, or a load_model() returned
    saving,          \* a second process on the same model_dir: its training run, and where its save_model is
    loading          \* where the detector's load_model is, when other processes run during it

vars == <<is_trained, vectorizer, classifier, vectorizer_pkl, classifier_pkl,
          runs, call, ret, completed, fitted, saving, loading>>

----------------------------------------------------------------------------
(* Characters                                                              *)

LowerSeq == <<"a","b","c","d","e","f","g","h","i","j","k","l","m","n","o","p","q","r","s","t","u","v","w","x","y","z">>

UpperSeq == <<"A","B","C","D","E","F","G","H","I","J","K","L","M","N","O","P","Q","R","S","T","U","V","W","X","Y","Z">>

DigitSeq == <<"0","1","2","3","4","5","6","7","8","9">>

\* The characters from '$' (0x24) to '_' (0x5F): the range $-_ of url_pattern.
DollarToUnderscore == <<"$","%","&","'","(",")","*","+",",","-",".","/","0","1","2","3","4","5","6","7","8","9",":",";","<","=",">","?","@","A","B","C","D","E","F","G","H","I","J","K","L","M","N","O","P","Q","R","S","T","U","V","W","X","Y","Z","[","\\","]","^","_">>

Range(s) == {s[i] : i \in 1..Len(s)}

Lower == Range(LowerSeq)

Upper == Range(UpperSeq)

Digit == Range(DigitSeq)

\* \s of the re module, over the characters of the model.
Whitespace == {" ", "\t", "\n"}

\* \w of the re module (str patterns): alphanumerics and the underscore.
WordChar == Lower \cup Upper \cup Digit \cup {"_"}

\* str.lower() on one character.
LowerChar(c) ==
    IF c \in Upper THEN LowerSeq[CHOOSE i \in 1..Len(UpperSeq) : UpperSeq[i] = c] ELSE c

\* str.lower()
lower(s) == [i \in 1..Len(s) |-> LowerChar(s[i])]

\* s[i-1:].startswith(pat), 1-based i
StartsWithAt(s, i, pat) ==
    /\ i >= 1
    /\ i + Len(pat) - 1 <= Len(s)
    /\ \A k \in 1..Len(pat) : s[i + k - 1] = pat[k]

\* pat in s
Contains(s, pat) == \E i \in 1..(Len(s) - Len(pat) + 1) : StartsWithAt(s, i, pat)

\* The least element of a non-empty set of integers.
Least(S) == CHOOSE x \in S : \A y \in S : x <= y

\* s.count(pat): non-overlapping occurrences, scanning from position i.
RECURSIVE CountFrom(_, _, _)
CountFrom(s, pat, i) ==
    LET found == {j \in i..Len(s) : StartsWithAt(s, j, pat)}
    IN IF found = {} THEN 0 ELSE 1 + CountFrom(s, pat, Least(found) + Len(pat))

count(s, pat) == CountFrom(s, pat, 1)

\* The last index of the maximal run of characters of set cs that starts at i
\* (i - 1 when s[i] is not in cs or i is past the end): a greedy cs*.
RunEnd(s, i, cs) ==
    LET stop == {j \in i..Len(s) : s[j] \notin cs}
    IN IF i > Len(s) THEN i - 1
       ELSE IF stop = {} THEN Len(s)
       ELSE Least(stop) - 1

Concat(ss) ==
    LET RECURSIVE Cat(_)
        Cat(k) == IF k = 0 THEN <<>> ELSE Cat(k - 1) \o ss[k]
    IN Cat(Len(ss))

----------------------------------------------------------------------------
(* preprocess_text                                                         *)

\* re.sub(r'[^\w\s]', ' ', text)
SubNonWord(s) ==
    [i \in 1..Len(s) |-> IF s[i] \in WordChar \cup Whitespace THEN s[i] ELSE " "]

\* re.sub(r'\s+', ' ', text): every maximal whitespace run becomes one space.
SubWhitespace(s) ==
    LET at       == [i \in 1..Len(s) |-> <<i, s[i]>>]
        first(p) == p[2] \notin Whitespace \/ p[1] = 1 \/ s[p[1] - 1] \notin Whitespace
        kept     == SelectSeq(at, first)
    IN [k \in 1..Len(kept) |-> IF kept[k][2] \in Whitespace THEN " " ELSE kept[k][2]]

\* str.strip()
strip(s) ==
    LET keep == {i \in 1..Len(s) : s[i] \notin Whitespace}
    IN IF keep = {} THEN <<>>
       ELSE SubSeq(s, CHOOSE i \in keep : \A j \in keep : i <= j,
                      CHOOSE i \in keep : \A j \in keep : i >= j)

preprocess_text(text) == strip(SubWhitespace(SubNonWord(lower(text))))

----------------------------------------------------------------------------
(* extract_urls                                                            *)

\* The character alternatives of url_pattern: [a-zA-Z] | [0-9] | [$-_@.&+] |
\* [!*\\(\\),].  The last alternative, %XX, adds nothing: '%' and the hex
\* digits are already in the classes before it.
UrlChar ==
    Lower \cup Upper \cup Digit \cup Range(DollarToUnderscore)
          \cup {"@", ".", "&", "+"} \cup {"!", "*", "\\", "(", ")", ","}

\* [a-zA-Z0-9-] of url_pattern_simple
LabelChar == Lower \cup Upper \cup Digit \cup {"-"}

\* [a-zA-Z0-9] of shortened_pattern
AlnumChar == Lower \cup Upper \cup Digit

\* The TLD alternatives of url_pattern_simple, in the pattern's order.
SimpleTlds ==
    << <<"c","o","m">>, <<"o","r","g">>, <<"n","e","t">>, <<"i","n">>, <<"c","o">>,
       <<"i","o">>, <<"a","i">>, <<"a","p","p">>, <<"x","y","z">>, <<"i","n","f","o">>,
       <<"b","i","z">>, <<"t","k">>, <<"m","l">>, <<"g","a">>, <<"c","f">>, <<"g","q">> >>

\* The hosts of shortened_pattern.
ShortenerHosts ==
    << <<"b","i","t",".","l","y">>, <<"t","i","n","y","u","r","l",".","c","o","m">>,
       <<"g","o","o",".","g","l">>, <<"o","w",".","l","y">>, <<"t",".","c","o">>,
       <<"c","u","t","t",".","l","y">> >>

\* url_pattern at position i: the index of the match's last character, 0 for
\* no match.  http, an optional s, ://, then one or more UrlChar (greedy).
MatchUrlPattern(s, i) ==
    LET body == IF StartsWithAt(s, i, <<"h","t","t","p","s",":","/","/">>) THEN i + 8
                ELSE IF StartsWithAt(s, i, <<"h","t","t","p",":","/","/">>) THEN i + 7
                ELSE 0
        e == RunEnd(s, body, UrlChar)
    IN IF body = 0 \/ e < body THEN 0 ELSE e

\* url_pattern_simple at position i: www. or <label>.<tld>, then [^\s]*.
MatchUrlPatternSimple(s, i) ==
    LET dot    == RunEnd(s, i, LabelChar) + 1
        www    == StartsWithAt(s, i, <<"w","w","w",".">>)
        domain == /\ dot > i
                  /\ StartsWithAt(s, dot, <<".">>)
                  /\ \E k \in 1..Len(SimpleTlds) : StartsWithAt(s, dot + 1, SimpleTlds[k])
    IN IF www \/ domain THEN RunEnd(s, i, {s[j] : j \in 1..Len(s)} \ Whitespace) ELSE 0

\* shortened_pattern at position i: a shortener host, /, one or more alphanumerics.
MatchShortenedPattern(s, i) ==
    LET hosts == {k \in 1..Len(ShortenerHosts) : StartsWithAt(s, i, ShortenerHosts[k])}
        h     == CHOOSE k \in hosts : TRUE
        slash == i + Len(ShortenerHosts[h])
        e     == RunEnd(s, slash + 1, AlnumChar)
    IN IF hosts = {} THEN 0
       ELSE IF StartsWithAt(s, slash, <<"/">>) /\ e > slash THEN e ELSE 0

MatchAt(pattern, s, i) ==
    CASE pattern = "url_pattern"        -> MatchUrlPattern(s, i)
      [] pattern = "url_pattern_simple" -> MatchUrlPatternSimple(s, i)
      [] pattern = "shortened_pattern"  -> MatchShortenedPattern(s, i)

\* re.findall(pattern, text): the leftmost non-overlapping matches, in order.
RECURSIVE FindAllFrom(_, _, _)
FindAllFrom(pattern, s, i) ==
    LET starts == {j \in i..Len(s) : MatchAt(pattern, s, j) # 0}
        b      == Least(starts)
        e      == MatchAt(pattern, s, b)
    IN IF starts = {} THEN <<>>
       ELSE <<SubSeq(s, b, e)>> \o FindAllFrom(pattern, s, e + 1)

findall(pattern, s) == FindAllFrom(pattern, s, 1)

\* extract_urls: the three findall lists concatenated, then list(set(urls)):
\* the distinct strings, in no particular order.
extract_urls(text) ==
    Range(findall("url_pattern", text)
          \o findall("url_pattern_simple", text)
          \o findall("shortened_pattern", text))

----------------------------------------------------------------------------
(* analyze_url                                                             *)

phishing_keywords ==
    << <<"v","e","r","i","f","y">>, <<"l","o","g","i","n">>,
       <<"a","c","c","o","u","n","t">>, <<"s","e","c","u","r","e">>,
       <<"u","p","d","a","t","e">>, <<"c","o","n","f","i","r","m">>,
       <<"b","a","n","k">>, <<"p","a","y","p","a","l">>,
       <<"a","m","a","z","o","n">>, <<"s","u","s","p","e","n","d","e","d">>,
       <<"u","r","g","e","n","t">>, <<"c","l","i","c","k">>,
       <<"p","r","i","z","e">>, <<"w","i","n","n","e","r">>,
       <<"f","r","e","e">>, <<"c","l","a","i","m">>,
       <<"l","i","m","i","t","e","d">>, <<"o","f","f","e","r">> >>

\* The shortener substrings of analyze_url (not the hosts of shortened_pattern).
shorteners ==
    { <<"b","i","t",".","l","y">>, <<"t","i","n","y","u","r","l">>,
      <<"g","o","o",".","g","l">>, <<"t",".","c","o">>, <<"c","u","t","t",".","l","y">> }

suspicious_tlds ==
    { <<".","t","k">>, <<".","m","l">>, <<".","g","a">>, <<".","c","f">>,
      <<".","g","q">>, <<".","x","y","z">>, <<".","t","o","p">> }

\* re.search(r'\d{1,3}\.\d{1,3}\.\d{1,3}\.\d{1,3}', url)
HasIpAddress(url) ==
    LET digits(i, n) == i + n - 1 <= Len(url) /\ \A k \in i..(i + n - 1) : url[k] \in Digit
        dot(i)       == i <= Len(url) /\ url[i] = "."
    IN \E i \in 1..Len(url) : \E a, b, c, d \in 1..3 :
          /\ digits(i, a) /\ dot(i + a)
          /\ digits(i + a + 1, b) /\ dot(i + a + 1 + b)
          /\ digits(i + a + b + 2, c) /\ dot(i + a + b + 2 + c)
          /\ digits(i + a + b + c + 3, d)

\* One rule of analyze_url: what it adds to the score and the reason it appends.
Rule(hit, points, label, arg) ==
    IF hit THEN [points |-> points, reasons |-> << [label |-> label, arg |-> arg] >>]
    ELSE [points |-> 0, reasons |-> <<>>]

\* The keyword loop: keywords 1..k of phishing_keywords, in order.
RECURSIVE KeywordRules(_, _)
KeywordRules(url_lower, k) ==
    IF k = 0 THEN [points |-> 0, reasons |-> <<>>]
    ELSE LET before == KeywordRules(url_lower, k - 1)
             this   == Rule(Contains(url_lower, phishing_keywords[k]), 15,
                            "Contains keyword", phishing_keywords[k])
         IN [points |-> before.points + this.points,
             reasons |-> before.reasons \o this.reasons]

\* The rules after the keyword loop, in the order of the code.
StructuralRules(url, url_lower) ==
    << Rule(\E sh \in shorteners : Contains(url_lower, sh), 20, "Shortened URL", <<>>),
       Rule(Contains(url, <<"@">>), 25, "Contains @ symbol", <<>>),
       Rule(count(url, <<"/","/">>) > 1, 20, "Multiple slashes", <<>>),
       Rule(\E tld \in suspicious_tlds : Contains(url_lower, tld), 15, "Suspicious TLD", <<>>),
       Rule(HasIpAddress(url), 20, "IP address in URL", <<>>),
       Rule(Len(url) > 100, 10, "Unusually long URL", <<>>),
       Rule(count(url_lower, <<"-">>) > 3, 10, "Multiple hyphens", <<>>) >>

RECURSIVE SumRules(_, _)
SumRules(rules, k) ==
    IF k = 0 THEN [points |-> 0, reasons |-> <<>>]
    ELSE LET before == SumRules(rules, k - 1)
         IN [points |-> before.points + rules[k].points,
             reasons |-> before.reasons \o rules[k].reasons]

Min(a, b) == IF a <= b THEN a ELSE b

Max(a, b) == IF a >= b THEN a ELSE b

\* ClampScore without line 110: the score is returned unclamped.
ClampScoreMissing(score) == score

\* suspicion_score = min(suspicion_score, 100)
ClampScore(score) == Min(score, 100)

\* 'is_suspicious': suspicion_score >= 40
IsSuspicious(score) == score >= 40

analyze_url(url) ==
    LET url_lower  == lower(url)
        keywords   == KeywordRules(url_lower, Len(phishing_keywords))
        structural == SumRules(StructuralRules(url, url_lower), 7)
        suspicion_score == ClampScore(keywords.points + structural.points)
    IN [url             |-> url,
        suspicion_score |-> suspicion_score,
        is_suspicious   |-> IsSuspicious(suspicion_score),
        reasons         |-> keywords.reasons \o structural.reasons]

----------------------------------------------------------------------------
(* The messages predict is called with                                     *)

\* test_examples, predict.py line 59: no URL.
MsgCatchUp ==
    <<"H","i",","," ","h","o","w"," ","a","r","e"," ","y","o","u","?"," ","L","e","t","'",
      "s"," ","c","a","t","c","h"," ","u","p"," ","t","o","m","o","r","r","o","w",".">>

\* test_examples, predict.py line 60: one URL, written with http:// on a .tk host.
MsgBankSuspended ==
    <<"U","R","G","E","N","T","!"," ","Y","o","u","r"," ","b","a","n","k"," ","a","c","c",
      "o","u","n","t"," ","h","a","s"," ","b","e","e","n"," ","s","u","s","p","e","n","d",
      "e","d","."," ","C","l","i","c","k"," ","h","t","t","p",":","/","/","s","e","c","u",
      "r","e","-","b","a","n","k","-","v","e","r","i","f","y",".","t","k","/","l","o","g",
      "i","n"," ","t","o"," ","r","e","s","t","o","r","e"," ","a","c","c","e","s","s"," ",
      "i","m","m","e","d","i","a","t","e","l","y","!">>

\* The tail of predict.py line 61: a shortener link.
MsgProcessingFee ==
    <<"P","a","y"," ","5","0","0","0"," ","p","r","o","c","e","s","s","i","n","g"," ","f",
      "e","e"," ","t","o"," ","b","i","t",".","l","y","/","c","l","a","i","m","1","2","3">>

\* The tail of predict.py line 63: a www. link.
MsgFreeIphone ==
    <<"C","l","i","c","k"," ","w","w","w",".","f","r","e","e","-","i","p","h","o","n","e",
      "-","c","l","a","i","m",".","x","y","z","/","w","i","n","n","e","r">>

\* The tail of predict.py line 65: an http:// URL on an IP address.
MsgInvest ==
    <<"C","o","n","t","a","c","t",":"," ","h","t","t","p",":","/","/","1","9","2",".","1",
      "6","8",".","1",".","1","/","i","n","v","e","s","t">>

Messages == {MsgCatchUp, MsgBankSuspended, MsgProcessingFee, MsgFreeIphone, MsgInvest}

----------------------------------------------------------------------------
(* Bounds of the model                                                     *)

\* Classifier probabilities are the multiples of 1/PScale in [0, 1].
PScale == 5

\* Training runs one detector goes through.
MaxRuns == 2

\* The most labels one train call is given.
MaxSamples == 4

\* The longest string preprocess_text is applied to.
MaxTextLen == 3

----------------------------------------------------------------------------
(* predict: the score fusion, lines 171-208                                *)

\* A confidence c is held as the integer c * ConfUnit, a probability p as
\* p * PScale, a suspicion score as itself (0..100).
ConfUnit == 1000 * PScale

Probabilities == 0..PScale

\* memo of extract_urls and analyze_url over the messages of the model
UrlAnalyses == [m \in Messages |-> {analyze_url(u) : u \in extract_urls(m)}]

\* max([...], default=0)
MaxScore(url_analyses) ==
    IF url_analyses = {} THEN 0
    ELSE LET top == CHOOSE ua \in url_analyses :
                       \A other \in url_analyses : ua.suspicion_score >= other.suspicion_score
         IN top.suspicion_score

\* (text_scam_prob * 0.6) + (url_risk_factor * 0.4), url_risk_factor = max_url_score / 100.0
CombinedScore(text_scam_prob, max_url_score) ==
    600 * text_scam_prob + 4 * max_url_score * PScale

\* 1 if combined_score >= 0.5 else 0
Preliminary(combined_score) == IF 2 * combined_score >= ConfUnit THEN 1 ELSE 0

\* The override, lines 184-186: <<final_prediction, combined_score>>.
Override(has_suspicious_urls, final_prediction, combined_score) ==
    IF has_suspicious_urls /\ final_prediction = 0
    THEN <<1, Max(combined_score, 600 * PScale)>>
    ELSE <<final_prediction, combined_score>>

\* The reasons list, lines 188-194 (the first reason without the percentage
\* the code formats into it).
Reasons(text_scam_prob, has_suspicious_urls, final_prediction) ==
    (IF 10 * text_scam_prob > 6 * PScale THEN <<"High scam probability in text">> ELSE <<>>)
    \o (IF has_suspicious_urls THEN <<"Contains suspicious URLs">> ELSE <<>>)
    \o (IF final_prediction = 0 THEN <<"Message appears safe">> ELSE <<>>)

\* The record predict returns for a message whose classifier output is
\* probability = [PScale - text_scam_prob, text_scam_prob] / PScale.
DetectionResult(text, text_scam_prob) ==
    LET url_analyses        == UrlAnalyses[text]
        max_url_score       == MaxScore(url_analyses)
        has_suspicious_urls == \E ua \in url_analyses : ua.is_suspicious
        combined            == CombinedScore(text_scam_prob, max_url_score)
        final               == Override(has_suspicious_urls, Preliminary(combined), combined)
    IN [text                    |-> text,
        is_scam                 |-> final[1] # 0,
        confidence              |-> final[2],
        text_scam_probability   |-> text_scam_prob,
        text_safe_probability   |-> PScale - text_scam_prob,
        urls_found              |-> Cardinality(url_analyses),
        url_analyses            |-> url_analyses,
        has_suspicious_urls     |-> has_suspicious_urls,
        max_url_suspicion_score |-> max_url_score,
        reasons                 |-> Reasons(text_scam_prob, has_suspicious_urls, final[1]),
        verdict                 |-> IF final[1] = 1 THEN "SCAM" ELSE "SAFE"]

----------------------------------------------------------------------------
(* Calls and what they return                                              *)

NoCall == [op |-> "none"]

NoRet == [kind |-> "none"]

Returned(value) == [kind |-> "returned", value |-> value]

Raised(error) == [kind |-> "raised", error |-> error]

----------------------------------------------------------------------------
(* The fitted objects and their pickles                                    *)

\* TfidfVectorizer(...) and RandomForestClassifier(...) as __init__ builds them.
UnfittedVectorizer == [fit |-> 0]

UnfittedClassifier == [fit |-> 0, n_classes |-> 0]

\* A fit that raised leaves the estimator as it was, or without its fitted
\* state: which one depends on where in the library the fit stopped.
AfterFailedFit(old, unfitted) == {old, unfitted}

NoFile == [exists |-> FALSE, intact |-> FALSE]

\* open(path, 'wb') succeeded and pickle.dump did not finish.
TruncatedFile == [exists |-> TRUE, intact |-> FALSE]

Pickled(obj) == [exists |-> TRUE, intact |-> TRUE, obj |-> obj]

\* No other process has trained, and none is inside save_model.
NoSave == [run |-> 0, at |-> "idle"]

----------------------------------------------------------------------------
(* train, lines 119-158                                                    *)

\* The labels of one train call, as <<number of 0s, number of 1s>>: the
\* stratified split and the fits of the model read nothing else of them.
LabelCounts == {lc \in (0..MaxSamples) \X (0..MaxSamples) : lc[1] + lc[2] <= MaxSamples}

\* len(texts) - len(labels) of one train call.
TextSurplus == {0, 1}

\* test_size, in percent: the default 0.2, and 0.5.
TestSizes == {20, 50}

\* train_test_split(processed_texts, labels, test_size=..., stratify=labels),
\* as scikit-learn validates it: arrays of one length, n_test = ceil(test_size * n),
\* n_train = n - n_test > 0, every class present has at least 2 members, and
\* neither part is smaller than the number of classes.
train_test_split(n_texts, labels, test_size) ==
    LET n         == labels[1] + labels[2]
        n_test    == (test_size * n + 99) \div 100
        n_train   == n - n_test
        n_classes == Cardinality({c \in 1..2 : labels[c] > 0})
    IN [ok        |-> /\ n_texts = n
                      /\ n_train >= 1
                      /\ \A c \in 1..2 : labels[c] > 0 => labels[c] >= 2
                      /\ n_train >= n_classes
                      /\ n_test >= n_classes,
        n_train   |-> n_train,
        n_classes |-> n_classes]

\* TfidfVectorizer(min_df=1, max_df=0.95): fit_transform raises when
\* max_df * n_documents < min_df.  (It also raises on an empty vocabulary,
\* which depends on the texts: the "vectorizer" fault of Train.)
VectorizerCanFit(n_train) == 95 * n_train >= 100 * 1

\* Where a train call that got past the split may raise.
TrainFaults == {"none", "vectorizer", "classifier"}

\* Where save_model may raise (an OSError of open or of pickle.dump).
SaveFaults == {"none", "open_vectorizer", "dump_vectorizer", "open_classifier", "dump_classifier"}

\* save_model, lines 210-221: the two files after it, and whether it returned.
\* It reads self.vectorizer and self.classifier, and not self.is_trained.
save_model(vec, clf, vpkl, cpkl, fault) ==
    CASE fault = "open_vectorizer" ->
           [vectorizer_pkl |-> vpkl, classifier_pkl |-> cpkl, ok |-> FALSE]
      [] fault = "dump_vectorizer" ->
           [vectorizer_pkl |-> TruncatedFile, classifier_pkl |-> cpkl, ok |-> FALSE]
      [] fault = "open_classifier" ->
           [vectorizer_pkl |-> Pickled(vec), classifier_pkl |-> cpkl, ok |-> FALSE]
      [] fault = "dump_classifier" ->
           [vectorizer_pkl |-> Pickled(vec), classifier_pkl |-> TruncatedFile, ok |-> FALSE]
      [] OTHER ->
           [vectorizer_pkl |-> Pickled(vec), classifier_pkl |-> Pickled(clf), ok |-> TRUE]

\* train_test_split raised: nothing of the detector has been touched.
TrainRejected ==
    /\ ret' = Raised("ValueError: train_test_split")
    /\ UNCHANGED <<is_trained, vectorizer, classifier, vectorizer_pkl, classifier_pkl,
                   runs, completed, fitted>>

\* Lines 133-158, after a split that succeeded.
TrainFits(split, save) ==
    /\ runs < MaxRuns
    /\ runs' = runs + 1
    /\ \E fault \in TrainFaults :
         LET vec == [fit |-> runs + 1]
             clf == [fit |-> runs + 1, n_classes |-> split.n_classes]
         IN IF fault = "vectorizer" \/ ~VectorizerCanFit(split.n_train)
            THEN \* line 133 raised
                 /\ vectorizer' \in AfterFailedFit(vectorizer, UnfittedVectorizer)
                 /\ ret' = Raised("ValueError: fit_transform")
                 /\ UNCHANGED <<is_trained, classifier, vectorizer_pkl, classifier_pkl,
                                completed, fitted>>
            ELSE IF fault = "classifier"
            THEN \* line 136 raised
                 /\ vectorizer' = vec
                 /\ classifier' \in AfterFailedFit(classifier, UnfittedClassifier)
                 /\ ret' = Raised("Error: classifier.fit")
                 /\ UNCHANGED <<is_trained, vectorizer_pkl, classifier_pkl,
                                completed, fitted>>
            ELSE /\ vectorizer' = vec
                 /\ classifier' = clf
                 /\ is_trained' = TRUE                  \* line 153
                 /\ fitted' = TRUE
                 /\ IF save
                    THEN \E save_fault \in SaveFaults :
                           LET saved == save_model(vec, clf, vectorizer_pkl,
                                                   classifier_pkl, save_fault)
                           IN /\ vectorizer_pkl' = saved.vectorizer_pkl
                              /\ classifier_pkl' = saved.classifier_pkl
                              /\ ret' = IF saved.ok THEN Returned("metrics")
                                        ELSE Raised("OSError: save_model")
                              /\ completed' = (completed \/ saved.ok)
                    ELSE /\ ret' = Returned("metrics")
                         /\ completed' = TRUE
                         /\ UNCHANGED <<vectorizer_pkl, classifier_pkl>>

\* train(texts, labels, test_size, save).  call records the two lengths the
\* validity of the training data is about.
Train ==
    \E labels \in LabelCounts, surplus \in TextSurplus, test_size \in TestSizes :
      LET n_texts == labels[1] + labels[2] + surplus
          split   == train_test_split(n_texts, labels, test_size)
      IN /\ call' = [op |-> "train", texts |-> n_texts, labels |-> labels]
         /\ UNCHANGED <<saving, loading>>
         /\ IF split.ok THEN \E save \in BOOLEAN : TrainFits(split, save)
            ELSE TrainRejected

----------------------------------------------------------------------------
(* save_model and load_model called on their own                           *)

SaveModel ==
    \E fault \in SaveFaults :
      LET saved == save_model(vectorizer, classifier, vectorizer_pkl, classifier_pkl, fault)
      IN /\ call' = [op |-> "save_model"]
         /\ UNCHANGED <<saving, loading>>
         /\ vectorizer_pkl' = saved.vectorizer_pkl
         /\ classifier_pkl' = saved.classifier_pkl
         /\ ret' = IF saved.ok THEN Returned("None") ELSE Raised("OSError: save_model")
         /\ UNCHANGED <<is_trained, vectorizer, classifier, runs, completed, fitted>>

\* load_model, lines 223-238.  pickle.load of a truncated file raises
\* (EOFError or UnpicklingError); self.vectorizer is assigned before
\* classifier.pkl is read.
LoadModel ==
    /\ call' = [op |-> "load_model"]
    /\ UNCHANGED <<vectorizer_pkl, classifier_pkl, runs, saving, loading>>
    /\ IF ~vectorizer_pkl.exists \/ ~classifier_pkl.exists
       THEN /\ ret' = Raised("FileNotFoundError")
            /\ UNCHANGED <<is_trained, vectorizer, classifier, completed, fitted>>
       ELSE IF ~vectorizer_pkl.intact
       THEN /\ ret' = Raised("pickle.load: vectorizer.pkl")
            /\ UNCHANGED <<is_trained, vectorizer, classifier, completed, fitted>>
       ELSE IF ~classifier_pkl.intact
       THEN /\ vectorizer' = vectorizer_pkl.obj
            /\ ret' = Raised("pickle.load: classifier.pkl")
            /\ UNCHANGED <<is_trained, classifier, completed, fitted>>
       ELSE /\ vectorizer' = vectorizer_pkl.obj
            /\ classifier' = classifier_pkl.obj
            /\ is_trained' = TRUE
            /\ completed' = TRUE
            /\ fitted' = TRUE
            /\ ret' = Returned("None")

----------------------------------------------------------------------------
(* predict, lines 160-208                                                  *)

\* RejectsUntrained without lines 162-163: predict goes on to the vectorizer.
RejectsUntrainedNever(flag) == FALSE

\* Lines 162-163: if not self.is_trained: raise ValueError("Model not trained. ...")
RejectsUntrained(flag) == ~flag

\* What predict returns or raises for a message whose classifier output would
\* be text_scam_prob.  transform and predict_proba raise NotFittedError on an
\* unfitted estimator; a classifier fitted on other features than the
\* vectorizer's either raises on the shape or scores the wrong columns
\* (shape_ok); a classifier fitted on one class has a one-column probability,
\* and probability[1] raises IndexError.
predict(text, text_scam_prob, shape_ok) ==
    IF RejectsUntrained(is_trained) THEN Raised("ValueError: Model not trained")
    ELSE IF vectorizer.fit = 0 \/ classifier.fit = 0 THEN Raised("NotFittedError")
    ELSE IF vectorizer.fit # classifier.fit /\ ~shape_ok THEN Raised("ValueError: n_features")
    ELSE IF classifier.n_classes < 2 THEN Raised("IndexError: probability[1]")
    ELSE Returned(DetectionResult(text, text_scam_prob))

\* preprocess_text(text) (line 165) feeds only the classifier, whose output is
\* any probability.
Predict ==
    \E text \in Messages, text_scam_prob \in Probabilities,
       shape_ok \in (IF vectorizer.fit = classifier.fit THEN {TRUE} ELSE BOOLEAN) :
      /\ call' = [op |-> "predict", text |-> text]
      /\ ret' = predict(text, text_scam_prob, shape_ok)
      /\ UNCHANGED <<is_trained, vectorizer, classifier, vectorizer_pkl, classifier_pkl,
                     runs, completed, fitted, saving, loading>>

----------------------------------------------------------------------------
(* The detector's life: construction, then any calls                       *)

Init ==
    /\ is_trained = FALSE
    /\ vectorizer = UnfittedVectorizer
    /\ classifier = UnfittedClassifier
    /\ vectorizer_pkl = NoFile
    /\ classifier_pkl = NoFile
    /\ runs = 0
    /\ call = NoCall
    /\ ret = NoRet
    /\ completed = FALSE
    /\ fitted = FALSE
    /\ saving = NoSave
    /\ loading = "idle"

Next == Train \/ SaveModel \/ LoadModel \/ Predict

Spec == Init /\ [][Next]_vars

----------------------------------------------------------------------------
(* The text functions on their own: one call on a fresh detector           *)

\* The characters preprocess_text is applied to: an upper-case and a lower-case
\* letter, a digit, the underscore, a punctuation mark, a space and a tab.
PreprocessChars == {"A", "b", "7", "_", "!", " ", "\t"}

PreprocessInputs == UNION {[1..n -> PreprocessChars] : n \in 0..MaxTextLen}

\* "http://t.co/ab": all three patterns match in it.
TextShortLink == <<"h","t","t","p",":","/","/","t",".","c","o","/","a","b">>

\* "a.tk b.a.tk a.tk": one bare domain twice, and once under a subdomain.
TextRepeated == <<"a",".","t","k"," ","b",".","a",".","t","k"," ","a",".","t","k">>

ExtractInputs == Messages \cup {TextShortLink, TextRepeated, <<>>}

\* What a URL handed to analyze_url is put together from: after "http://" and
\* the first k keywords, any of these, each of which sets off one rule (the
\* second "//", the "@", the TLD in upper case, the IP address, the hyphens,
\* the shortener); all 18 keywords make the URL longer than 100 characters.
UrlFragments ==
    << <<"/","/">>, <<"@">>, <<".","T","K">>, <<"/","1",".","2",".","3",".","4">>,
       <<"-","a","-","b","-","c","-","d">>, <<"/","b","i","t",".","l","y">> >>

BuildUrl(k, picked) ==
    <<"h","t","t","p",":","/","/">>
    \o Concat(SubSeq(phishing_keywords, 1, k))
    \o Concat([i \in 1..Len(UrlFragments) |-> IF i \in picked THEN UrlFragments[i] ELSE <<>>])

UrlInputs ==
    {BuildUrl(k, picked) : k \in 0..Len(phishing_keywords),
                           picked \in SUBSET (1..Len(UrlFragments))}

TextCalls ==
    {[op |-> "preprocess_text", text |-> s] : s \in PreprocessInputs}
    \cup {[op |-> "extract_urls", text |-> s] : s \in ExtractInputs}
    \cup {[op |-> "analyze_url", url |-> u] : u \in UrlInputs}

InitText ==
    /\ is_trained = FALSE
    /\ vectorizer = UnfittedVectorizer
    /\ classifier = UnfittedClassifier
    /\ vectorizer_pkl = NoFile
    /\ classifier_pkl = NoFile
    /\ runs = 0
    /\ call \in TextCalls
    /\ ret = NoRet
    /\ completed = FALSE
    /\ fitted = FALSE
    /\ saving = NoSave
    /\ loading = "idle"

Lifecycle == <<is_trained, vectorizer, classifier, vectorizer_pkl, classifier_pkl,
               runs, completed, fitted>>

PreprocessText ==
    /\ call.op = "preprocess_text"
    /\ ret = NoRet
    /\ ret' = Returned(preprocess_text(call.text))
    /\ UNCHANGED <<call, Lifecycle, saving, loading>>

ExtractUrls ==
    /\ call.op = "extract_urls"
    /\ ret = NoRet
    /\ ret' = Returned(extract_urls(call.text))
    /\ UNCHANGED <<call, Lifecycle, saving, loading>>

AnalyzeUrl ==
    /\ call.op = "analyze_url"
    /\ ret = NoRet
    /\ ret' = Returned(analyze_url(call.url))
    /\ UNCHANGED <<call, Lifecycle, saving, loading>>

NextText == PreprocessText \/ ExtractUrls \/ AnalyzeUrl

SpecText == InitText /\ [][NextText]_vars

----------------------------------------------------------------------------
(* Two processes on one model directory                                    *)
(*                                                                         *)
(* The detector of the variables above calls load_model, while a second    *)
(* process (train.py on the same model_dir) trains and saves.  Each process*)
(* is sequential; between two file operations of one the other may run.    *)
(* save_model takes no lock and writes the two files in place, one after   *)
(* the other (lines 215-219); load_model takes no lock and reads them one  *)
(* after the other (lines 228-235).                                        *)

\* What the second process holds after its training run number run.
OtherVectorizer(run) == [fit |-> run]

OtherClassifier(run) == [fit |-> run, n_classes |-> 2]

\* The second process runs train(..., save=True): lines 133-153 fit its own
\* vectorizer and classifier, line 156 enters save_model.
OtherTrains ==
    /\ saving.at = "idle"
    /\ saving.run < MaxRuns
    /\ saving' = [run |-> saving.run + 1, at |-> "open_vectorizer"]
    /\ UNCHANGED <<is_trained, vectorizer, classifier, vectorizer_pkl, classifier_pkl,
                   runs, call, ret, completed, fitted, loading>>

\* Line 215: open(vectorizer_path, 'wb') creates or truncates the file.
OtherOpensVectorizer ==
    /\ saving.at = "open_vectorizer"
    /\ vectorizer_pkl' = TruncatedFile
    /\ saving' = [saving EXCEPT !.at = "dump_vectorizer"]
    /\ UNCHANGED <<is_trained, vectorizer, classifier, classifier_pkl,
                   runs, call, ret, completed, fitted, loading>>

\* Line 216 and the end of the with block: the pickle is written and closed.
OtherDumpsVectorizer ==
    /\ saving.at = "dump_vectorizer"
    /\ vectorizer_pkl' = Pickled(OtherVectorizer(saving.run))
    /\ saving' = [saving EXCEPT !.at = "open_classifier"]
    /\ UNCHANGED <<is_trained, vectorizer, classifier, classifier_pkl,
                   runs, call, ret, completed, fitted, loading>>

\* Line 218: open(classifier_path, 'wb').
OtherOpensClassifier ==
    /\ saving.at = "open_classifier"
    /\ classifier_pkl' = TruncatedFile
    /\ saving' = [saving EXCEPT !.at = "dump_classifier"]
    /\ UNCHANGED <<is_trained, vectorizer, classifier, vectorizer_pkl,
                   runs, call, ret, completed, fitted, loading>>

\* Line 219 and the end of the with block; save_model returns (line 221).
OtherDumpsClassifier ==
    /\ saving.at = "dump_classifier"
    /\ classifier_pkl' = Pickled(OtherClassifier(saving.run))
    /\ saving' = [saving EXCEPT !.at = "idle"]
    /\ UNCHANGED <<is_trained, vectorizer, classifier, vectorizer_pkl,
                   runs, call, ret, completed, fitted, loading>>

\* The save stops where it is (an OSError, or the process is killed): nothing
\* in save_model undoes what it has written.
OtherInterrupted ==
    /\ saving.at # "idle"
    /\ saving' = [saving EXCEPT !.at = "idle"]
    /\ UNCHANGED <<is_trained, vectorizer, classifier, vectorizer_pkl, classifier_pkl,
                   runs, call, ret, completed, fitted, loading>>

\* Lines 228-229 of load_model: both paths must exist.
LoadModelChecks ==
    /\ loading = "idle"
    /\ call' = [op |-> "load_model"]
    /\ IF ~vectorizer_pkl.exists \/ ~classifier_pkl.exists
       THEN /\ ret' = Raised("FileNotFoundError")
            /\ loading' = "idle"
       ELSE /\ ret' = NoRet
            /\ loading' = "load_vectorizer"
    /\ UNCHANGED <<is_trained, vectorizer, classifier, vectorizer_pkl, classifier_pkl,
                   runs, completed, fitted, saving>>

\* Lines 231-232: self.vectorizer = pickle.load(f), of the file as it is now.
LoadModelReadsVectorizer ==
    /\ loading = "load_vectorizer"
    /\ IF vectorizer_pkl.intact
       THEN /\ vectorizer' = vectorizer_pkl.obj
            /\ loading' = "load_classifier"
            /\ UNCHANGED ret
       ELSE /\ ret' = Raised("pickle.load: vectorizer.pkl")
            /\ loading' = "idle"
            /\ UNCHANGED vectorizer
    /\ UNCHANGED <<is_trained, classifier, vectorizer_pkl, classifier_pkl,
                   runs, call, completed, fitted, saving>>

\* Lines 234-238: self.classifier = pickle.load(f), then is_trained = True.
LoadModelReadsClassifier ==
    /\ loading = "load_classifier"
    /\ loading' = "idle"
    /\ IF classifier_pkl.intact
       THEN /\ classifier' = classifier_pkl.obj
            /\ is_trained' = TRUE
            /\ completed' = TRUE
            /\ fitted' = TRUE
            /\ ret' = Returned("None")
       ELSE /\ ret' = Raised("pickle.load: classifier.pkl")
            /\ UNCHANGED <<is_trained, classifier, completed, fitted>>
    /\ UNCHANGED <<vectorizer, vectorizer_pkl, classifier_pkl, runs, call, saving>>

NextStore ==
    \/ OtherTrains
    \/ OtherOpensVectorizer
    \/ OtherDumpsVectorizer
    \/ OtherOpensClassifier
    \/ OtherDumpsClassifier
    \/ OtherInterrupted
    \/ LoadModelChecks
    \/ LoadModelReadsVectorizer
    \/ LoadModelReadsClassifier

SpecStore == Init /\ [][NextStore]_vars

----------------------------------------------------------------------------
(* The claims                                                              *)

PredictReturned == call.op = "predict" /\ ret.kind = "returned"

NotTrainedError == Raised("ValueError: Model not trained")

\* C1 (as stated; the code violates it): whenever predict returns a result in
\* which some entry of url_analyses is suspicious, the result has is_scam true
\* and confidence >= 0.6, also when the preliminary verdict was already scam.
C1_OverrideProperty ==
    (PredictReturned /\ \E ua \in ret.value.url_analyses : ua.is_suspicious)
        => (ret.value.is_scam /\ 10 * ret.value.confidence >= 6 * ConfUnit)

\* C2 (as stated; refuted): predict returns a result only if an earlier
\* train() or load_model() on the detector completed successfully.
C2_ResultOnlyAfterCompletedTrainOrLoad ==
    PredictReturned => completed

\* C2 (amended): predict does anything other than raise the 'not trained'
\* error only if an earlier train() got as far as setting is_trained (line
\* 153, before its save) or an earlier load_model() returned; on a detector
\* where neither has happened every predict raises 'not trained' and returns
\* no result.
C2_RejectedUntilFitted ==
    (call.op = "predict" /\ ret # NotTrainedError) => fitted

\* C2 witness: predict was rejected as 'not trained' on a detector whose only
\* train() so far failed in the classifier fit, after its vectorizer was fitted.
C2_Witness ==
    /\ call.op = "predict"
    /\ ret = NotTrainedError
    /\ vectorizer.fit # 0
    /\ ~fitted

\* C3 (as stated; the code violates it): save_model() on a detector whose
\* is_trained is false raises the 'not trained' error and leaves no
\* vectorizer or classifier file in the model directory.
C3_SaveRejectedUntrained ==
    (call.op = "save_model" /\ ~is_trained)
        => (ret = NotTrainedError /\ ~vectorizer_pkl.exists /\ ~classifier_pkl.exists)

\* The training data of the train call in call is invalid: the lengths differ
\* or the labels hold fewer than two classes.
InvalidTrainingData(c) ==
    \/ c.texts # c.labels[1] + c.labels[2]
    \/ c.labels[1] = 0
    \/ c.labels[2] = 0

\* C4 (as stated; the code violates it): a train call whose texts and labels
\* differ in length, or whose labels hold fewer than two classes, raises, does
\* not set is_trained and writes no model file.
C4_TrainRejectsInvalidData ==
    [][(call'.op = "train" /\ InvalidTrainingData(call'))
          => /\ ret'.kind = "raised"
             /\ is_trained' = is_trained
             /\ vectorizer_pkl' = vectorizer_pkl
             /\ classifier_pkl' = classifier_pkl]_vars

\* C5 (as stated; the code violates it): of two results predict returns for
\* the same URL assessments, the one with the higher classifier probability
\* has no lower confidence.
C5_FusionMonotone ==
    [][(/\ PredictReturned
        /\ call'.op = "predict"
        /\ ret'.kind = "returned"
        /\ ret'.value.url_analyses = ret.value.url_analyses
        /\ ret.value.text_scam_probability <= ret'.value.text_scam_probability)
          => ret.value.confidence <= ret'.value.confidence]_vars

\* C6: every analyze_url call returns, with an integer suspicion_score in
\* 0..100 and is_suspicious equal to (suspicion_score >= 40).
C6_ScoreInRange ==
    (call.op = "analyze_url" /\ ret # NoRet)
        => /\ ret.kind = "returned"
           /\ ret.value.suspicion_score \in 0..100
           /\ ret.value.is_suspicious = (ret.value.suspicion_score >= 40)

\* C6 witness: analyze_url has returned for a URL that sets off all 18
\* keywords and all 7 structural rules, its score clamped to 100.
C6_Witness ==
    /\ call.op = "analyze_url"
    /\ ret.kind = "returned"
    /\ Len(ret.value.reasons) = Len(phishing_keywords) + 7
    /\ ret.value.suspicion_score = 100
    /\ ret.value.is_suspicious

\* C7 (as stated; the code violates it): what preprocess_text returns holds
\* only lower-case letters, digits and spaces, does not start or end with a
\* space and has no two spaces in a row.
C7_NormalizedAlphabet ==
    (call.op = "preprocess_text" /\ ret.kind = "returned")
        => LET out == ret.value
           IN /\ \A i \in 1..Len(out) : out[i] \in Lower \cup Digit \cup {" "}
              /\ Len(out) > 0 => (out[1] # " " /\ out[Len(out)] # " ")
              /\ \A i \in 1..(Len(out) - 1) : ~(out[i] = " " /\ out[i + 1] = " ")

\* The messages of the model with exactly one URL occurrence, written with
\* http:// on a host whose TLD is on the list of url_pattern_simple.
MessagesWithOneHttpUrl == {MsgBankSuspended}

\* C8 (as stated; the code violates it): for a message with exactly one URL
\* occurrence, written with http:// on an allow-listed TLD, predict reports
\* urls_found = 1 and one entry in url_analyses.
C8_OneUrlFound ==
    (PredictReturned /\ call.text \in MessagesWithOneHttpUrl)
        => (ret.value.urls_found = 1 /\ Cardinality(ret.value.url_analyses) = 1)

\* C9 (as stated; the code violates it): in no result of predict does the
\* reason 'Message appears safe' come with 'High scam probability in text' or
\* 'Contains suspicious URLs'.
C9_ReasonsExclusive ==
    PredictReturned
        => LET reasons == Range(ret.value.reasons)
           IN ~("Message appears safe" \in reasons
                /\ ("High scam probability in text" \in reasons
                    \/ "Contains suspicious URLs" \in reasons))

\* C10 (as stated; the code violates it): whenever is_trained is true, the
\* vectorizer and the classifier in memory are both fitted, by the same
\* training run.
C10_TrainedPairIntact ==
    is_trained => /\ vectorizer.fit # 0
                  /\ classifier.fit # 0
                  /\ vectorizer.fit = classifier.fit

\* C11 (as stated; the code violates it): with a second process saving into
\* the same model directory, at any interleaving of its file writes with the
\* reads of load_model and with a save stopped between its two writes, every
\* load_model that returns has loaded a vectorizer and a classifier written
\* by the same save: never the vectorizer of one training run with the
\* classifier of another.
C11_LoadedPairFromOneSave ==
    (call.op = "load_model" /\ ret.kind = "returned")
        => /\ is_trained
           /\ vectorizer.fit = classifier.fit

=============================================================================
